---- MODULE Spec2Model ----
(***************************************************************************)
(* Component index subsystem of wfx: the index builder                     *)
(* (scripts/build_component_index.py) and the component index loader       *)
(* (wfx/_assets/component_loader.py).                                      *)
(*                                                                         *)
(* Python dicts are insertion ordered; a dict is modelled as a sequence of *)
(* items [k |-> key, v |-> value] with pairwise different keys.  Python    *)
(* lists are sequences.  A JSON value held by the loader is either         *)
(* [kind |-> "none"] (None / null) or a record of kind "dict" whose field  *)
(* `has` is the set of top-level keys that are present.                    *)
(***************************************************************************)
EXTENDS Naturals, Sequences, FiniteSets, TLC

VARIABLES
    files,              \* file system: content of the index files, by path
    dirs,               \* file system: content of the components directories
    index_path,         \* ComponentIndexLoader.index_path
    cache_path,         \* ComponentIndexLoader.cache_path
    index_data,         \* ComponentIndexLoader.index_data
    development_mode,   \* ComponentIndexLoader._development_mode
    selective_modules,  \* ComponentIndexLoader._selective_modules
    environ,            \* the process environment the constructor reads
    last,               \* observation of the last call on the loader
    calls,              \* number of calls made on the loader
    component_loader,   \* module global _component_loader
    pc,                 \* per thread: position inside get_component_loader
    received,           \* per thread: the instance get_component_loader returned
    constructed,        \* number of ComponentIndexLoader instances constructed
    components_path,    \* ComponentIndexBuilder.components_path: its entries
    builder_index,      \* ComponentIndexBuilder.index
    builder_last,       \* observation of the last call on the builder
    builder_calls,      \* number of calls made on the builder
    scans               \* the catalogs scans of new builders have produced

vars == <<files, dirs, index_path, cache_path, index_data, development_mode,
          selective_modules, environ, last, calls, component_loader, pc,
          received, constructed, components_path, builder_index,
          builder_last, builder_calls, scans>>

loaderVars == <<index_path, cache_path, index_data, development_mode,
                selective_modules>>

envVars == <<files, dirs, environ>>

threadVars == <<component_loader, pc, received, constructed>>

builderVars == <<components_path, builder_index, builder_last, builder_calls,
                 scans>>

(***************************************************************************)
(* Bounds                                                                  *)
(***************************************************************************)
MaxCalls == 2
NumThreads == 2
MaxBuilderCalls == 3

(***************************************************************************)
(* Strings.  Every string the model compares by order is listed here in    *)
(* Python's (code point) order, which is the order sorted() and            *)
(* json.dump(sort_keys=True) use.                                          *)
(***************************************************************************)
SortedStrings ==
    << ".git", "Chat", "ChatOpenAI", "FaissIndex", "FaissStore", "MistralModel",
       "OpenAIEmbeddings", "Zeta", "Zeta2",
       "__module__", "__pycache__", "categories", "components",
       "faiss", "faiss.FaissIndex", "faiss.FaissStore", "metadata",
       "mistral", "mistral.MistralModel", "models", "modules",
       "notes.txt", "openai", "openai.ChatOpenAI", "openai.OpenAIEmbeddings",
       "openai.v2", "openai.v2.Chat", "other", "v2.Chat", "v2.Zeta", "vectorstores", "zeta", "zeta.Zeta", "zeta.Zeta2",
       "zeta.v2", "zeta.v2.Zeta" >>

Rank(s) == CHOOSE i \in 1..Len(SortedStrings) : SortedStrings[i] = s

StrLess(a, b) == Rank(a) < Rank(b)

\* str.startswith for the two prefixes scan_components tests
StartsWithDunder(s) == s \in {"__pycache__", "__module__"}
StartsWithDot(s) == s \in {".git"}

\* str.lower(): the names of the model that contain upper-case letters
Lower(s) ==
    CASE s = "ChatOpenAI" -> "chatopenai"
      [] s = "FaissStore" -> "faissstore"
      [] s = "FaissIndex" -> "faissindex"
      [] s = "MistralModel" -> "mistralmodel"
      [] s = "Zeta2" -> "zeta2"
      [] s = "Chat" -> "chat"
      [] s = "v2.Chat" -> "v2.chat"
      [] s = "v2.Zeta" -> "v2.zeta"
      [] s = "OpenAIEmbeddings" -> "openaiembeddings"
      [] s = "Zeta" -> "zeta"
      [] s = "OpenAI" -> "openai"
      [] s = "Google" -> "google"
      [] s = "AZURE" -> "azure"
      [] s = "Anthropic" -> "anthropic"
      [] s = "FAISS" -> "faiss"
      [] s = "Unknown" -> "unknown"
      [] OTHER -> s

(***************************************************************************)
(* Ordered dicts                                                           *)
(***************************************************************************)
DictHas(d, k) == \E i \in 1..Len(d) : d[i].k = k

DictGet(d, k) == d[CHOOSE i \in 1..Len(d) : d[i].k = k].v

\* d[k] = v: a new key goes last, an existing key keeps its position
DictSet(d, k, v) ==
    IF DictHas(d, k)
    THEN [i \in 1..Len(d) |-> IF d[i].k = k THEN [k |-> k, v |-> v] ELSE d[i]]
    ELSE Append(d, [k |-> k, v |-> v])

DictKeys(d) == [i \in 1..Len(d) |-> d[i].k]

KeySet(d) == {d[i].k : i \in 1..Len(d)}

SeqSet(s) == {s[i] : i \in 1..Len(s)}

\* the items of d in the order of their keys
RECURSIVE SortByKey(_)
SortByKey(d) ==
    IF Len(d) = 0 THEN << >>
    ELSE LET m == CHOOSE i \in 1..Len(d) :
                      \A j \in 1..Len(d) : j = i \/ StrLess(d[i].k, d[j].k)
             rest == SubSeq(d, 1, m - 1) \o SubSeq(d, m + 1, Len(d))
         IN  << d[m] >> \o SortByKey(rest)

(***************************************************************************)
(* Index builder: scripts/build_component_index.py                         *)
(***************************************************************************)

\* the dict literal of _get_category_from_module, in source order; Python
\* keeps the last value of a key written twice ("google", "azure")
category_map ==
    << <<"anthropic", "models">>, <<"openai", "models">>,
       <<"mistral", "models">>, <<"google", "models">>,
       <<"azure", "models">>, <<"vertexai", "models">>,
       <<"cohere", "models">>, <<"huggingface", "models">>,
       <<"nvidia", "models">>, <<"ollama", "models">>,
       <<"groq", "models">>, <<"perplexity", "models">>,
       <<"deepseek", "models">>, <<"xai", "models">>,
       <<"novita", "models">>, <<"sambanova", "models">>,
       <<"aiml", "models">>,
       <<"faiss", "vectorstores">>, <<"pinecone", "vectorstores">>,
       <<"weaviate", "vectorstores">>, <<"qdrant", "vectorstores">>,
       <<"chroma", "vectorstores">>, <<"pgvector", "vectorstores">>,
       <<"milvus", "vectorstores">>, <<"vectara", "vectorstores">>,
       <<"supabase", "vectorstores">>, <<"upstash", "vectorstores">>,
       <<"redis", "vectorstores">>,
       <<"notion", "datasources">>, <<"confluence", "datasources">>,
       <<"wikipedia", "datasources">>, <<"arxiv", "datasources">>,
       <<"youtube", "datasources">>, <<"github", "datasources">>,
       <<"duckduckgo", "search">>, <<"bing", "search">>,
       <<"google", "search">>, <<"serpapi", "search">>,
       <<"tavily", "search">>, <<"exa", "search">>,
       <<"searchapi", "search">>,
       <<"tools", "tools">>, <<"helpers", "tools">>,
       <<"processing", "tools">>, <<"chains", "tools">>,
       <<"logic", "tools">>, <<"crewai", "tools">>,
       <<"documentloaders", "document_processing">>,
       <<"textsplitters", "document_processing">>,
       <<"unstructured", "document_processing">>,
       <<"docling", "document_processing">>,
       <<"embeddings", "embeddings">>,
       <<"aws", "cloud">>, <<"amazon", "cloud">>, <<"gcp", "cloud">>,
       <<"azure", "cloud">>,
       <<"custom_component", "custom">>, <<"composio", "integration">>,
       <<"homeassistant", "iot">> >>

\* the value the dict literal holds for key: that of its last entry with
\* that key, looked for from entry i downwards
RECURSIVE CategoryLookup(_, _, _)
CategoryLookup(table, key, i) ==
    IF i = 0 THEN "other"
    ELSE IF table[i][1] = key THEN table[i][2]
    ELSE CategoryLookup(table, key, i - 1)

\* category_map.get(module_name.lower(), "other")
get_category_from_module(module_name) ==
    CategoryLookup(category_map, Lower(module_name), Len(category_map))

(***************************************************************************)
(* The text of an __init__.py is a sequence of lines.  Of a line the       *)
(* extraction only looks at: whether its stripped text starts with         *)
(* "_dynamic_imports = {" (starts), how many "{" and "}" it holds (opens,  *)
(* closes), the "key": "value" pairs the regular expression finds in it    *)
(* (pairs) and whether it holds the text "__module__" in quotes            *)
(* (module_kw).                                                            *)
(***************************************************************************)
Line(starts, opens, closes, pairs, module_kw) ==
    [starts |-> starts, opens |-> opens, closes |-> closes,
     pairs |-> pairs, module_kw |-> module_kw]

\* the loop over the lines: the lines collected into dict_lines.
\* st = [in |-> in_dynamic_imports, brace |-> brace_count, out |-> dict_lines]
RECURSIVE CollectDictLines(_, _, _)
CollectDictLines(lines, i, st) ==
    IF i > Len(lines) THEN st.out
    ELSE LET ln == lines[i] IN
         IF ln.starts
         THEN CollectDictLines(lines, i + 1,
                  [in |-> TRUE, brace |-> 1, out |-> Append(st.out, ln)])
         ELSE IF st.in
         THEN LET b == (st.brace + ln.opens) - ln.closes
                  o == Append(st.out, ln)
              IN  IF ln.closes >= st.brace + ln.opens
                  THEN o
                  ELSE CollectDictLines(lines, i + 1,
                           [in |-> TRUE, brace |-> b, out |-> o])
         ELSE CollectDictLines(lines, i + 1, st)

\* all regular expression matches of the collected lines, in text order
RECURSIVE AllPairs(_)
AllPairs(dict_lines) ==
    IF Len(dict_lines) = 0 THEN << >>
    ELSE Head(dict_lines).pairs \o AllPairs(Tail(dict_lines))

RECURSIVE DictFromPairs(_, _)
DictFromPairs(d, ps) ==
    IF Len(ps) = 0 THEN d
    ELSE DictFromPairs(DictSet(d, Head(ps)[1], Head(ps)[2]), Tail(ps))

\* the dict built from the collected lines
ImportsOfLines(dict_lines) ==
    IF Len(dict_lines) = 0 THEN << >>
    ELSE IF \E i \in 1..Len(dict_lines) : dict_lines[i].module_kw
    THEN DictSet(DictFromPairs(<< >>, AllPairs(dict_lines)),
                 "__module__", "__module__")
    ELSE DictFromPairs(<< >>, AllPairs(dict_lines))

extract_dynamic_imports(content) ==
    ImportsOfLines(CollectDictLines(content, 1,
                       [in |-> FALSE, brace |-> 0, out |-> << >>]))

(***************************************************************************)
(* A component source file is [status, description, dependencies]; status  *)
(* is "ok", "missing" (exists() is false), "unreadable" (read_text raises) *)
(* or "oserror" (exists() itself raises, which pathlib does for errors     *)
(* other than a missing path).  description and dependencies are what the  *)
(* line heuristics find in a readable file.                                *)
(***************************************************************************)
SourceFile(status, description, dependencies) ==
    [status |-> status, description |-> description,
     dependencies |-> dependencies]

MissingFile == SourceFile("missing", "", << >>)

EmptyInfo ==
    [description |-> "", inputs |-> << >>, outputs |-> << >>,
     dependencies |-> << >>, tags |-> << >>]

\* result [raised, info]; the exists() test is outside the try block
extract_component_info(file) ==
    IF file.status = "oserror" THEN [raised |-> TRUE, info |-> EmptyInfo]
    ELSE IF file.status = "ok"
    THEN [raised |-> FALSE,
          info |-> [EmptyInfo EXCEPT !.description = file.description,
                                     !.dependencies = file.dependencies]]
    ELSE [raised |-> FALSE, info |-> EmptyInfo]

(***************************************************************************)
(* A directory entry of the components root.                               *)
(***************************************************************************)
DirEntry(name, is_dir, has_init, init_readable, init, sources) ==
    [name |-> name, is_dir |-> is_dir, has_init |-> has_init,
     init_readable |-> init_readable, init |-> init, sources |-> sources]

SourceOf(entry, file_path) ==
    IF DictHas(entry.sources, file_path)
    THEN DictGet(entry.sources, file_path)
    ELSE MissingFile

ComponentKey(module_name, component_name) ==
    module_name \o "." \o component_name

FullPath(module_name, file_path) ==
    "components/" \o module_name \o "/" \o file_path \o ".py"

\* builder.index after __init__
EmptyIndex ==
    [kind |-> "dict",
     has |-> {"metadata", "components", "modules", "categories"},
     metadata |-> [version |-> "1.0", generated_at |-> "None",
                   total_components |-> 0, total_modules |-> 0,
                   selective_modules |-> << >>, selective |-> FALSE],
     components |-> << >>, modules |-> << >>, categories |-> << >>]

\* the two insertions of _add_component_to_index; r is the outcome of
\* _extract_component_info, category that of _get_category_from_module
InsertComponent(index, module_name, component_name, file_path, r, category) ==
    LET component_key == ComponentKey(module_name, component_name)
        rec == [module |-> module_name, name |-> component_name,
                file_path |-> file_path,
                full_path |-> FullPath(module_name, file_path),
                category |-> category, info |-> r.info]
        cats == IF DictHas(index.categories, category)
                THEN index.categories
                ELSE DictSet(index.categories, category, << >>)
    IN  IF r.raised THEN [raised |-> TRUE, index |-> index]
        ELSE [raised |-> FALSE,
              index |-> [index EXCEPT
                  !.components = DictSet(index.components, component_key, rec),
                  !.categories = DictSet(cats, category,
                      Append(DictGet(cats, category), component_key))]]

\* result [raised, index]
add_component_to_index(index, entry, component_name, file_path) ==
    InsertComponent(index, entry.name, component_name, file_path,
                    extract_component_info(SourceOf(entry, file_path)),
                    get_category_from_module(entry.name))

component_count(dynamic_imports) ==
    Cardinality({i \in 1..Len(dynamic_imports) :
                    dynamic_imports[i].k # "__module__"})

add_module_to_index(index, module_name, dynamic_imports) ==
    [index EXCEPT !.modules = DictSet(index.modules, module_name,
        [name |-> module_name,
         category |-> get_category_from_module(module_name),
         dynamic_imports |-> dynamic_imports,
         component_count |-> component_count(dynamic_imports)])]

RECURSIVE AddComponents(_, _, _, _)

\* after one component: an exception leaves the loop
NextComponent(r, entry, dynamic_imports, i) ==
    IF r.raised THEN r
    ELSE AddComponents(r.index, entry, dynamic_imports, i + 1)

\* the loop over dynamic_imports.items(), from item i on: [raised, index]
AddComponents(index, entry, dynamic_imports, i) ==
    IF i > Len(dynamic_imports) THEN [raised |-> FALSE, index |-> index]
    ELSE IF dynamic_imports[i].k = "__module__"
    THEN AddComponents(index, entry, dynamic_imports, i + 1)
    ELSE NextComponent(
             add_component_to_index(index, entry, dynamic_imports[i].k,
                                    dynamic_imports[i].v),
             entry, dynamic_imports, i)

\* after the component loop: the module is added unless the loop raised
AfterComponents(r, module_name, dynamic_imports) ==
    IF r.raised THEN r.index
    ELSE add_module_to_index(r.index, module_name, dynamic_imports)

\* the part of the loop body that follows _extract_dynamic_imports
ScanImports(index, entry, dynamic_imports) ==
    IF Len(dynamic_imports) = 0 THEN index
    ELSE AfterComponents(AddComponents(index, entry, dynamic_imports, 1),
                         entry.name, dynamic_imports)

\* the body of the loop over the module directories, for one directory
ScanModule(index, entry) ==
    IF ~entry.has_init THEN index
    ELSE IF ~entry.init_readable THEN index
    ELSE ScanImports(index, entry, extract_dynamic_imports(entry.init))

\* sorted(module_dirs): the directory paths in lexicographic order
RECURSIVE SortEntries(_)
SortEntries(es) ==
    IF Len(es) = 0 THEN << >>
    ELSE LET m == CHOOSE i \in 1..Len(es) :
                      \A j \in 1..Len(es) :
                          j = i \/ StrLess(es[i].name, es[j].name)
         IN  << es[m] >> \o
             SortEntries(SubSeq(es, 1, m - 1) \o SubSeq(es, m + 1, Len(es)))

\* module_dirs holding every directory, whatever its name
ModuleDirs_no_prefix_filter(listing) ==
    SelectSeq(listing, LAMBDA d : d.is_dir)

ModuleDirs(listing) ==
    SelectSeq(listing, LAMBDA d : d.is_dir /\ ~StartsWithDunder(d.name)
                                           /\ ~StartsWithDot(d.name))

RECURSIVE ScanModules(_, _)
ScanModules(index, module_dirs) ==
    IF Len(module_dirs) = 0 THEN index
    ELSE ScanModules(ScanModule(index, Head(module_dirs)), Tail(module_dirs))

\* the working directory of the process that runs the loader
Cwd == "/work"

\* the sum of the component_count fields of the modules
RECURSIVE SumComponentCounts(_)
SumComponentCounts(modules) ==
    IF Len(modules) = 0 THEN 0
    ELSE Head(modules).v.component_count + SumComponentCounts(Tail(modules))

\* the metadata update with total_components taken from the modules'
\* component_count fields
UpdateMetadata_from_module_counts(scanned, cwd) ==
    [scanned EXCEPT
        !.metadata.total_components = SumComponentCounts(scanned.modules),
        !.metadata.total_modules = Len(scanned.modules),
        !.metadata.generated_at = cwd]

\* the metadata update that ends scan_components; cwd is str(Path.cwd())
UpdateMetadata(scanned, cwd) ==
    [scanned EXCEPT
        !.metadata.total_components = Len(scanned.components),
        !.metadata.total_modules = Len(scanned.modules),
        !.metadata.generated_at = cwd]

\* scan_components taking the directories as iterdir() yields them
scan_components_unsorted(index, listing, cwd) ==
    UpdateMetadata(ScanModules(index, ModuleDirs(listing)), cwd)

\* scan_components on a builder whose index is `index`, run in working
\* directory cwd; listing is what components_path.iterdir() yields
scan_components_in(index, listing, cwd) ==
    UpdateMetadata(ScanModules(index, SortEntries(ModuleDirs(listing))), cwd)

\* scan_components as the loader's process runs it
scan_components(index, listing) == scan_components_in(index, listing, Cwd)

RequiredKeys == {"metadata", "components", "modules", "categories"}

\* component_info["module"] raises KeyError on a record without that key
HasModuleField(component_info) == "module" \in DOMAIN component_info

\* validate_index raises: the first component that stops the loop has no
\* module field
validate_index_raises(index) ==
    /\ RequiredKeys \subseteq index.has
    /\ \E i \in 1..Len(index.components) :
          /\ ~HasModuleField(index.components[i].v)
          /\ \A j \in 1..(i - 1) :
                /\ HasModuleField(index.components[j].v)
                /\ DictHas(index.modules, index.components[j].v.module)

\* validate_index returns True
validate_index(index) ==
    /\ RequiredKeys \subseteq index.has
    /\ \A i \in 1..Len(index.components) :
          /\ HasModuleField(index.components[i].v)
          /\ DictHas(index.modules, index.components[i].v.module)

(***************************************************************************)
(* Persistence.  json.dump(index, sort_keys=True) writes every dict in key *)
(* order and every list in list order; json.load gives back the dicts in   *)
(* the order of the text.                                                  *)
(***************************************************************************)
SortModuleInfo(m) ==
    [m EXCEPT !.dynamic_imports = SortByKey(m.dynamic_imports)]

JsonDump(index) ==
    [index EXCEPT
        !.components = SortByKey(index.components),
        !.modules = SortByKey([i \in 1..Len(index.modules) |->
                        [k |-> index.modules[i].k,
                         v |-> SortModuleInfo(index.modules[i].v)]]),
        !.categories = SortByKey(index.categories)]

\* json.load giving back every categories list in reverse order
JsonLoad_lists_reversed(text) ==
    [text EXCEPT !.categories =
        [i \in 1..Len(text.categories) |->
            [k |-> text.categories[i].k,
             v |-> [j \in 1..Len(text.categories[i].v) |->
                       text.categories[i].v[(Len(text.categories[i].v) + 1) - j]]]]]

\* json.load: the dicts and lists of the text
JsonLoad(text) == text

AbsentFile == [kind |-> "absent"]
CorruptFile == [kind |-> "corrupt"]
JsonFile(value) == [kind |-> "json", text |-> JsonDump(value)]

\* save_index(output_path) on the cache file: [raised, file]
save_index(index, file, writable) ==
    IF writable THEN [raised |-> FALSE, file |-> JsonFile(index)]
    ELSE [raised |-> TRUE, file |-> file]

(***************************************************************************)
(* Component index loader: wfx/_assets/component_loader.py                 *)
(***************************************************************************)
None == [kind |-> "none"]

\* Python truthiness of index_data: None and the empty dict are false
Truthy(data) == data.kind = "dict" /\ data.has # {}

\* index_path.parent.parent / "components"; the directories are named
\* after the index path they belong to
ComponentsDirOf(path) == path

(***************************************************************************)
(* Locations.  A path is the sequence of its parts below the project root. *)
(***************************************************************************)
Parent(path) == SubSeq(path, 1, Len(path) - 1)

\* Path(__file__) of the loader module
LoaderModuleFile ==
    <<"src", "wfx", "src", "wfx", "_assets", "component_loader.py">>

\* wfx_root / "_assets" / "component_index.json"
DefaultIndexFile ==
    Parent(Parent(Parent(LoaderModuleFile)))
        \o <<"_assets", "component_index.json">>

\* the file an index path of the loader stands for; the custom one is a
\* value of WFX_COMPONENTS_INDEX_PATH
IndexFileOf(path) ==
    IF path = "custom" THEN <<"deploy", "index", "component_index.json">>
    ELSE DefaultIndexFile

\* the directory the loader scans: index_path.parent.parent / "components"
ComponentsDirAt(index_file) == Parent(Parent(index_file)) \o <<"components">>

\* main of the builder script: components_path and output_path, below
\* project_root = Path(__file__).parent.parent
MainComponentsPath ==
    Parent(Parent(<<"scripts", "build_component_index.py">>))
        \o <<"src", "wfx", "src", "wfx", "components">>

MainOutputPath ==
    Parent(Parent(<<"scripts", "build_component_index.py">>))
        \o <<"src", "wfx", "src", "wfx", "_assets", "component_index.json">>

Returned(value) == [kind |-> "return", value |-> value]
Raised(error) == [kind |-> "raise", value |-> error]

\* _try_load_builtin_index: [ok, index_data, events]
try_load_builtin_index(data, fs, ipath) ==
    IF ipath = "none" THEN [ok |-> FALSE, index_data |-> data, events |-> << >>]
    ELSE IF fs[ipath].kind = "absent"
    THEN [ok |-> FALSE, index_data |-> data, events |-> << >>]
    ELSE IF fs[ipath].kind = "corrupt"
    THEN [ok |-> FALSE, index_data |-> data, events |-> <<"read_builtin">>]
    ELSE [ok |-> TRUE, index_data |-> JsonLoad(fs[ipath].text),
          events |-> <<"read_builtin">>]

\* _try_load_cached_index: [ok, index_data, events]
try_load_cached_index(data, fs, cpath) ==
    IF cpath = "none" THEN [ok |-> FALSE, index_data |-> data, events |-> << >>]
    ELSE IF fs[cpath].kind = "absent"
    THEN [ok |-> FALSE, index_data |-> data, events |-> << >>]
    ELSE IF fs[cpath].kind = "corrupt"
    THEN [ok |-> FALSE, index_data |-> data, events |-> <<"read_cache">>]
    ELSE [ok |-> TRUE, index_data |-> JsonLoad(fs[cpath].text),
          events |-> <<"read_cache">>]

\* the end of _build_and_cache_index adopting the index without saving it
CacheAndAdopt_no_write(data, fs, cpath, index, w) ==
    [ok |-> TRUE, index_data |-> index, files |-> fs,
     events |-> <<"scan", "write_cache">>]

\* the end of _build_and_cache_index: w is the outcome of save_index
CacheAndAdopt(data, fs, cpath, index, w) ==
    IF w.raised
    THEN [ok |-> FALSE, index_data |-> data, files |-> fs,
          events |-> <<"scan">>]
    ELSE [ok |-> TRUE, index_data |-> index,
          files |-> [fs EXCEPT ![cpath] = w.file],
          events |-> <<"scan", "write_cache">>]

\* the part that follows scan_components with self.index_data set before
\* the validation
ValidateAndCache_adopt_first(data, fs, cpath, index) ==
    IF ~validate_index(index)
    THEN [ok |-> FALSE, index_data |-> index, files |-> fs,
          events |-> <<"scan">>]
    ELSE IF cpath = "none"
    THEN [ok |-> TRUE, index_data |-> index, files |-> fs,
          events |-> <<"scan">>]
    ELSE CacheAndAdopt(index, fs, cpath, index,
                       save_index(index, fs[cpath], fs.cache_writable))

\* the part of _build_and_cache_index that follows scan_components
ValidateAndCache(data, fs, cpath, index) ==
    IF ~validate_index(index)
    THEN [ok |-> FALSE, index_data |-> data, files |-> fs,
          events |-> <<"scan">>]
    ELSE IF cpath = "none"
    THEN [ok |-> TRUE, index_data |-> index, files |-> fs,
          events |-> <<"scan">>]
    ELSE CacheAndAdopt(data, fs, cpath, index,
                       save_index(index, fs[cpath], fs.cache_writable))

\* _build_and_cache_index: [ok, index_data, files, events]
build_and_cache_index(data, fs, ds, ipath, cpath) ==
    IF ipath = "none"
    THEN [ok |-> FALSE, index_data |-> data, files |-> fs, events |-> << >>]
    ELSE IF ~ds[ComponentsDirOf(ipath)].exists
    THEN [ok |-> FALSE, index_data |-> data, files |-> fs, events |-> << >>]
    ELSE ValidateAndCache(data, fs, cpath,
             scan_components(EmptyIndex, ds[ComponentsDirOf(ipath)].listing))

\* tier 3 returning self.index_data whether or not the build succeeded
TierThree_no_raise(t1, t2, t3) ==
    [ret |-> Returned(t3.index_data),
     index_data |-> t3.index_data, files |-> t3.files,
     events |-> t1.events \o t2.events \o t3.events]

\* tier 3 and the final raise, after tiers 1 and 2 failed
TierThree(t1, t2, t3) ==
    [ret |-> IF t3.ok THEN Returned(t3.index_data)
             ELSE Raised("RuntimeError"),
     index_data |-> t3.index_data, files |-> t3.files,
     events |-> t1.events \o t2.events \o t3.events]

\* tier 2, after tier 1 failed
TierTwo(t1, t2, fs, ds, ipath, cpath) ==
    IF t2.ok
    THEN [ret |-> Returned(t2.index_data), index_data |-> t2.index_data,
          files |-> fs, events |-> t1.events \o t2.events]
    ELSE TierThree(t1, t2,
             build_and_cache_index(t2.index_data, fs, ds, ipath, cpath))

\* tier 1
TierOne(t1, fs, ds, ipath, cpath) ==
    IF t1.ok
    THEN [ret |-> Returned(t1.index_data), index_data |-> t1.index_data,
          files |-> fs, events |-> t1.events]
    ELSE TierTwo(t1, try_load_cached_index(t1.index_data, fs, cpath),
                 fs, ds, ipath, cpath)

\* tier 2 tried first, then tier 1
TierTwoFirst(t2, fs, ds, ipath, cpath) ==
    IF t2.ok
    THEN [ret |-> Returned(t2.index_data), index_data |-> t2.index_data,
          files |-> fs, events |-> t2.events]
    ELSE TierOne(try_load_builtin_index(t2.index_data, fs, ipath),
                 [fs EXCEPT !.cache = AbsentFile], ds, ipath, cpath)

\* _load_production_mode with the cache tried before the built-in file
load_production_mode_cache_first(data, fs, ds, ipath, cpath) ==
    TierTwoFirst(try_load_cached_index(data, fs, cpath), fs, ds, ipath, cpath)

\* _load_production_mode: [ret, index_data, files, events]
load_production_mode(data, fs, ds, ipath, cpath) ==
    TierOne(try_load_builtin_index(data, fs, ipath), fs, ds, ipath, cpath)

\* the validation that ends _build_full_index
ValidatedIndex(index) ==
    IF ~validate_index(index)
    THEN [raised |-> TRUE, index |-> None, events |-> <<"scan">>]
    ELSE [raised |-> FALSE, index |-> index, events |-> <<"scan">>]

\* _build_full_index: [raised, index, events]
build_full_index(ds, ipath) ==
    IF ipath = "none"
    THEN [raised |-> TRUE, index |-> None, events |-> << >>]
    ELSE IF ~ds[ComponentsDirOf(ipath)].exists
    THEN [raised |-> TRUE, index |-> None, events |-> << >>]
    ELSE ValidatedIndex(
             scan_components(EmptyIndex, ds[ComponentsDirOf(ipath)].listing))

\* the two filter loops of _build_selective_index
FilterByCategory(d, selected) ==
    SelectSeq(d, LAMBDA item : item.v.category \in selected)

\* the categories dict the component loop builds, from item i on
RECURSIVE FilterCategories(_, _, _)
FilterCategories(cats, components, i) ==
    IF i > Len(components) THEN cats
    ELSE LET c == components[i].v.category
             with == IF DictHas(cats, c) THEN cats ELSE DictSet(cats, c, << >>)
         IN  FilterCategories(
                 DictSet(with, c, Append(DictGet(with, c), components[i].k)),
                 components, i + 1)

\* the filtered index with the counts of the full index left in the metadata
FilteredIndex_stale_counts(full_index, selected, selected_list) ==
    LET mods == FilterByCategory(full_index.modules, selected)
        comps == FilterByCategory(full_index.components, selected)
    IN  [kind |-> "dict",
         has |-> {"metadata", "components", "modules", "categories"},
         metadata |-> [full_index.metadata EXCEPT
                          !.selective = TRUE,
                          !.selective_modules = selected_list],
         components |-> comps,
         modules |-> mods,
         categories |-> FilterCategories(<< >>, comps, 1)]

\* the filtered index; selected_list is list(self._selective_modules)
FilteredIndex(full_index, selected, selected_list) ==
    LET mods == FilterByCategory(full_index.modules, selected)
        comps == FilterByCategory(full_index.components, selected)
    IN  [kind |-> "dict",
         has |-> {"metadata", "components", "modules", "categories"},
         metadata |-> [full_index.metadata EXCEPT
                          !.selective = TRUE,
                          !.selective_modules = selected_list,
                          !.total_components = Len(comps),
                          !.total_modules = Len(mods)],
         components |-> comps,
         modules |-> mods,
         categories |-> FilterCategories(<< >>, comps, 1)]

\* the outcome of the except branch; again is that of the second
\* _build_full_index
FallbackResult(again, events) ==
    [raised |-> again.raised, index |-> again.index,
     events |-> events \o <<"selective_failed">> \o again.events]

\* the except branch raising again instead of building the full index
SelectiveFallback_reraise(ds, ipath, events) ==
    [raised |-> TRUE, index |-> None,
     events |-> events \o <<"selective_failed">>]

\* the except branch of _build_selective_index: log the failure, then
\* return self._build_full_index()
SelectiveFallback(ds, ipath, events) ==
    FallbackResult(build_full_index(ds, ipath), events)

\* the try block of _build_selective_index after the full index was built.
\* filter_raises says whether an exception is raised inside the filter step.
FilterFull(full, ds, ipath, selected, selected_list, filter_raises) ==
    IF full.raised THEN SelectiveFallback(ds, ipath, full.events)
    ELSE IF selected = {} THEN full
    ELSE IF filter_raises THEN SelectiveFallback(ds, ipath, full.events)
    ELSE [raised |-> FALSE,
          index |-> FilteredIndex(full.index, selected, selected_list),
          events |-> full.events]

\* _build_selective_index: [raised, index, events]
build_selective_index(ds, ipath, selected, selected_list, filter_raises) ==
    FilterFull(build_full_index(ds, ipath), ds, ipath, selected,
               selected_list, filter_raises)

\* what load_index gives its caller in development mode: b is the outcome
\* of the build; self.index_data is not assigned
DevelopmentResult(b, data, fs) ==
    [ret |-> IF b.raised THEN Raised("RuntimeError") ELSE Returned(b.index),
     index_data |-> data, files |-> fs, events |-> b.events]

\* development mode serving the cache file when it loads
CacheOrBuild(t2, b, data, fs) ==
    IF t2.ok
    THEN [ret |-> Returned(t2.index_data), index_data |-> data,
          files |-> fs, events |-> t2.events]
    ELSE DevelopmentResult(b, data, fs)

\* _load_development_mode preferring the cache file when it loads
load_development_mode_cache(data, fs, ds, ipath, selected, selected_list, filter_raises) ==
    CacheOrBuild(try_load_cached_index(data, fs, "cache"),
                 IF selected # {}
                 THEN build_selective_index(ds, ipath, selected,
                                            selected_list, filter_raises)
                 ELSE build_full_index(ds, ipath),
                 data, fs)

\* _load_development_mode: [ret, index_data, files, events]
load_development_mode(data, fs, ds, ipath, selected, selected_list, filter_raises) ==
    DevelopmentResult(
        IF selected # {}
        THEN build_selective_index(ds, ipath, selected, selected_list,
                                   filter_raises)
        ELSE build_full_index(ds, ipath),
        data, fs)

\* load_index: [ret, index_data, files, events]
load_index(data, fs, ds, ipath, cpath, dev, selected, selected_list, filter_raises) ==
    IF dev
    THEN load_development_mode(data, fs, ds, ipath, selected, selected_list,
                               filter_raises)
    ELSE load_production_mode(data, fs, ds, ipath, cpath)

\* index_data.get(key, {}) for a top-level key
Field(data, key) == IF key \in data.has THEN data[key] ELSE << >>

\* the part of a query operation after the lazy load
Answer(op, arg, data) ==
    IF ~Truthy(data) THEN << >>
    ELSE CASE op = "get_available_modules" ->
                  DictKeys(Field(data, "modules"))
           [] op = "get_available_categories" ->
                  DictKeys(Field(data, "categories"))
           [] op = "get_components_in_module" ->
                  IF ~DictHas(Field(data, "modules"), arg) THEN << >>
                  ELSE DictKeys(SelectSeq(
                           DictGet(Field(data, "modules"), arg).dynamic_imports,
                           LAMBDA item : item.k # "__module__"))
           [] op = "get_components_in_category" ->
                  IF ~DictHas(Field(data, "categories"), arg) THEN << >>
                  ELSE DictGet(Field(data, "categories"), arg)

\* a query operation after its call of load_index, whose outcome is l
AnswerAfterLoad(op, arg, l) ==
    [ret |-> IF l.ret.kind = "raise" THEN l.ret
             ELSE Returned(Answer(op, arg, l.index_data)),
     index_data |-> l.index_data, files |-> l.files,
     events |-> l.events, loaded |-> TRUE]

\* get_available_modules, get_available_categories, get_components_in_module,
\* get_components_in_category: [ret, index_data, files, events, loaded]
Query(op, arg, data, fs, ds, ipath, cpath, dev, selected, selected_list, filter_raises) ==
    IF Truthy(data)
    THEN [ret |-> Returned(Answer(op, arg, data)), index_data |-> data,
          files |-> fs, events |-> << >>, loaded |-> FALSE]
    ELSE AnswerAfterLoad(op, arg,
             load_index(data, fs, ds, ipath, cpath, dev, selected,
                        selected_list, filter_raises))

(***************************************************************************)
(* Construction of the loader                                              *)
(***************************************************************************)
\* str.strip() and the comma separated pieces of WFX_DEV
Strip(s) ==
    CASE s = " Models " -> "Models"
      [] s = " " -> ""
      [] OTHER -> s

LowerPiece(s) ==
    CASE s = "Models" -> "models"
      [] s \in {"TRUE", "True", "tRUE"} -> "true"
      [] OTHER -> Lower(s)

RECURSIVE Join(_)
Join(pieces) ==
    IF Len(pieces) = 1 THEN pieces[1]
    ELSE pieces[1] \o "," \o Join(Tail(pieces))

\* _setup_paths whose except clause keeps the index path assigned before
\* the failure
setup_paths_keep_index(home_ok) ==
    IF home_ok THEN [index_path |-> "default", cache_path |-> "cache"]
    ELSE [index_path |-> "default", cache_path |-> "none"]

\* _setup_paths: [index_path, cache_path]; home_ok is false when resolving
\* or creating the cache directory raises
setup_paths(home_ok) ==
    IF home_ok THEN [index_path |-> "default", cache_path |-> "cache"]
    ELSE [index_path |-> "none", cache_path |-> "none"]

\* _check_environment_variables leaving the index path as _setup_paths
\* set it
check_environment_variables_keep_default(ipath, wfx_dev, custom_set, fs) ==
    LET text == Join(wfx_dev)
        modules == SelectSeq([i \in 1..Len(wfx_dev) |-> Strip(wfx_dev[i])],
                             LAMBDA m : m # "")
    IN  [development_mode |-> text # "",
         selective_modules |->
             IF text # "" /\ text \notin {"1", "true", "True", "TRUE"}
             THEN {LowerPiece(modules[i]) : i \in 1..Len(modules)}
             ELSE {},
         index_path |-> ipath]

\* _check_environment_variables: [development_mode, selective_modules,
\* index_path]; wfx_dev is WFX_DEV split at its commas, custom_set says
\* whether WFX_COMPONENTS_INDEX_PATH is set
check_environment_variables(ipath, wfx_dev, custom_set, fs) ==
    LET text == Join(wfx_dev)
        modules == SelectSeq([i \in 1..Len(wfx_dev) |-> Strip(wfx_dev[i])],
                             LAMBDA m : m # "")
    IN  [development_mode |-> text # "",
         selective_modules |->
             IF text # "" /\ text \notin {"1", "true", "True", "TRUE"}
             THEN {LowerPiece(modules[i]) : i \in 1..Len(modules)}
             ELSE {},
         index_path |-> IF custom_set /\ fs.custom.kind # "absent"
                        THEN "custom" ELSE ipath]

(***************************************************************************)
(* The environments the model explores                                     *)
(***************************************************************************)
InitOpen == Line(TRUE, 1, 0, << >>, FALSE)
InitClose == Line(FALSE, 0, 1, << >>, FALSE)
InitPair(k, v) == Line(FALSE, 0, 0, << <<k, v>> >>, FALSE)
InitOther == Line(FALSE, 0, 0, << >>, FALSE)

OpenaiDir ==
    DirEntry("openai", TRUE, TRUE, TRUE,
        << InitOther, InitOpen, InitPair("ChatOpenAI", "chat_model"),
           InitPair("OpenAIEmbeddings", "embeddings"), InitClose >>,
        << [k |-> "chat_model",
            v |-> SourceFile("ok", "Chat model", << "langchain_openai" >>)],
           [k |-> "embeddings", v |-> SourceFile("unreadable", "", << >>)] >>)

FaissDir ==
    DirEntry("faiss", TRUE, TRUE, TRUE,
        << InitOpen, InitPair("FaissStore", "faiss"),
           Line(FALSE, 0, 1, << >>, TRUE) >>,
        << [k |-> "faiss", v |-> SourceFile("ok", "", << "faiss" >>)] >>)

ZetaDir ==
    DirEntry("zeta", TRUE, TRUE, TRUE,
        << InitOpen, InitPair("Zeta", "zeta"), InitClose >>, << >>)

\* a module whose second component makes exists() raise
ZetaBrokenDir ==
    DirEntry("zeta", TRUE, TRUE, TRUE,
        << InitOpen, InitPair("Zeta", "zeta"), InitPair("Zeta2", "locked"),
           InitClose >>,
        << [k |-> "locked", v |-> SourceFile("oserror", "", << >>)] >>)

\* a module whose second component makes exists() raise, followed by
\* other modules in the order of the scan
FaissBrokenDir ==
    DirEntry("faiss", TRUE, TRUE, TRUE,
        << InitOpen, InitPair("FaissStore", "faiss"),
           InitPair("FaissIndex", "locked"), InitClose >>,
        << [k |-> "faiss", v |-> SourceFile("ok", "", << "faiss" >>)],
           [k |-> "locked", v |-> SourceFile("oserror", "", << >>)] >>)

MistralDir ==
    DirEntry("mistral", TRUE, TRUE, TRUE,
        << InitOpen, InitPair("MistralModel", "mistral"), InitClose >>,
        << [k |-> "mistral", v |-> SourceFile("ok", "Mistral", << >>)] >>)

\* two directories whose names and declared names hold a "."
ZetaDottedNameDir ==
    DirEntry("zeta", TRUE, TRUE, TRUE,
        << InitOpen, InitPair("v2.Zeta", "zeta"), InitClose >>, << >>)

ZetaV2Dir ==
    DirEntry("zeta.v2", TRUE, TRUE, TRUE,
        << InitOpen, InitPair("Zeta", "zeta"), InitClose >>, << >>)

\* an initializer whose block holds only the "__module__" entry
ZetaSentinelDir ==
    DirEntry("zeta", TRUE, TRUE, TRUE,
        << InitOpen, Line(FALSE, 0, 1, << >>, TRUE) >>, << >>)

ZetaNoInitDir == DirEntry("zeta", TRUE, FALSE, FALSE, << >>, << >>)

\* a hidden directory that holds an initializer with a block
HiddenDir ==
    DirEntry(".git", TRUE, TRUE, TRUE,
        << InitOpen, InitPair("Zeta", "zeta"), InitClose >>, << >>)

ZetaNoBlockDir ==
    DirEntry("zeta", TRUE, TRUE, TRUE, << InitOther, InitOther >>, << >>)

ZetaUnreadableDir == DirEntry("zeta", TRUE, TRUE, FALSE, << >>, << >>)

GitDir == DirEntry(".git", TRUE, FALSE, FALSE, << >>, << >>)

PycacheDir ==
    DirEntry("__pycache__", TRUE, TRUE, TRUE,
        << InitOpen, InitPair("Zeta", "zeta"), InitClose >>, << >>)

NotesFile == DirEntry("notes.txt", FALSE, FALSE, FALSE, << >>, << >>)

AbsentDir == [exists |-> FALSE, listing |-> << >>]
Dir(listing) == [exists |-> TRUE, listing |-> listing]

\* the components directories: directory listings in iterdir() order
Roots ==
    { AbsentDir,
      Dir(<< >>),
      Dir(<< OpenaiDir >>),
      Dir(<< ZetaDir, PycacheDir, OpenaiDir, NotesFile, FaissDir, GitDir >>),
      Dir(<< ZetaNoBlockDir, FaissDir >>),
      Dir(<< FaissDir, ZetaBrokenDir >>) }

BuiltinCatalog == scan_components(EmptyIndex, << FaissDir, OpenaiDir >>)
CacheCatalog == scan_components(EmptyIndex, << ZetaDir >>)

\* a catalog without the "categories" key
MissingKeyCatalog ==
    [BuiltinCatalog EXCEPT !.has = {"metadata", "components", "modules"},
                           !.categories = << >>]

\* a catalog with a component whose module is not in modules
DanglingCatalog == [CacheCatalog EXCEPT !.modules = << >>]

EmptyDict ==
    [EmptyIndex EXCEPT !.has = {}]

BuiltinFiles ==
    { AbsentFile, CorruptFile, JsonFile(BuiltinCatalog), JsonFile(EmptyDict),
      JsonFile(MissingKeyCatalog), JsonFile(DanglingCatalog) }

CacheFiles ==
    { AbsentFile, CorruptFile, JsonFile(CacheCatalog),
      JsonFile(DanglingCatalog) }

CustomFiles == { AbsentFile, JsonFile(CacheCatalog) }

WfxDevValues ==
    { <<"">>, <<"1">>, <<"models">>, <<" Models ", "other">>, <<"TRUE">>,
      <<"tRUE">>, <<"models", " ">> }

QueryModules == {"openai", "faiss", "zeta"}
QueryCategories == {"models", "vectorstores", "other"}

\* the orders list(set) may give
Orders(S) ==
    {q \in UNION {[1..n -> S] : n \in {Cardinality(S)}} :
        \A i, j \in 1..Len(q) : i # j => q[i] # q[j]}

NoCall == [op |-> "none", arg |-> "", ret |-> Returned(<< >>),
           events |-> << >>, loaded |-> FALSE]

ReferenceRoot ==
    Dir(<< ZetaDir, PycacheDir, OpenaiDir, NotesFile, FaissDir, GitDir >>)

Env(b, c, u, w, d, dc, home_ok, wfx_dev, custom_set) ==
    [builtin |-> b, cache |-> c, custom |-> u, cache_writable |-> w,
     components |-> d, custom_components |-> dc, home_ok |-> home_ok,
     wfx_dev |-> wfx_dev, custom_set |-> custom_set]

\* production mode with the default paths; the components directory is
\* varied where the loader can come to look at it (no index file loads)
ProductionEnvs ==
    { e \in { Env(b, c, AbsentFile, w, d, AbsentDir, TRUE, <<"">>, FALSE) :
                b \in BuiltinFiles, c \in CacheFiles, w \in BOOLEAN,
                d \in Roots } :
        \/ e.components = ReferenceRoot
        \/ e.builtin.kind # "json" /\ e.cache.kind # "json" }

\* development mode, which does not look at the index files
DevelopmentEnvs ==
    { Env(JsonFile(BuiltinCatalog), c, AbsentFile, TRUE, d, AbsentDir,
          home_ok, wfx_dev, FALSE) :
        c \in {AbsentFile, JsonFile(CacheCatalog)}, d \in Roots,
        home_ok \in BOOLEAN, wfx_dev \in WfxDevValues \ {<<"">>} }

\* WFX_COMPONENTS_INDEX_PATH is set
CustomPathEnvs ==
    { Env(JsonFile(BuiltinCatalog), c, u, TRUE, ReferenceRoot, dc,
          home_ok, <<"">>, TRUE) :
        c \in {AbsentFile, JsonFile(CacheCatalog)},
        u \in {AbsentFile, CorruptFile, JsonFile(CacheCatalog)},
        dc \in {AbsentDir, Dir(<< OpenaiDir >>)}, home_ok \in BOOLEAN }

\* path resolution fails and no custom path is set
NoPathEnvs ==
    { Env(JsonFile(BuiltinCatalog), JsonFile(CacheCatalog), AbsentFile, TRUE,
          ReferenceRoot, AbsentDir, FALSE, <<"">>, FALSE) }

Environments ==
    ProductionEnvs \cup DevelopmentEnvs \cup CustomPathEnvs \cup NoPathEnvs

ThreadIds == 1..NumThreads

NoBuilderCall == [op |-> "none", ret |-> TRUE, raised |-> FALSE,
                  fresh |-> TRUE, in_order |-> TRUE]

\* no builder is in use: the loader makes its own inside load_index
NoBuilder ==
    /\ components_path = {}
    /\ builder_index = EmptyIndex
    /\ builder_last = NoBuilderCall
    /\ builder_calls = 0
    /\ scans = << >>

\* the fields of a loader at the start of __init__
Unconfigured ==
    /\ index_path = "none"
    /\ cache_path = "none"
    /\ index_data = None
    /\ development_mode = FALSE
    /\ selective_modules = {}

\* the fields of a loader at the end of __init__
Configured ==
    LET p == setup_paths(environ.home_ok)
        v == check_environment_variables(p.index_path, environ.wfx_dev,
                                         environ.custom_set, files)
    IN  /\ index_path' = v.index_path
        /\ cache_path' = p.cache_path
        /\ index_data' = None
        /\ development_mode' = v.development_mode
        /\ selective_modules' = v.selective_modules

InEnvironment(e) ==
    /\ files = [default |-> e.builtin, custom |-> e.custom,
                cache |-> e.cache, cache_writable |-> e.cache_writable]
    /\ dirs = [default |-> e.components, custom |-> e.custom_components]
    /\ environ = [home_ok |-> e.home_ok, wfx_dev |-> e.wfx_dev,
                  custom_set |-> e.custom_set]

\* the state after ComponentIndexLoader() in some environment
Init ==
    /\ \E e \in Environments :
          /\ InEnvironment(e)
          /\ LET p == setup_paths(e.home_ok)
                 v == check_environment_variables(p.index_path, e.wfx_dev,
                                                  e.custom_set, files)
             IN  /\ index_path = v.index_path
                 /\ cache_path = p.cache_path
                 /\ development_mode = v.development_mode
                 /\ selective_modules = v.selective_modules
    /\ index_data = None
    /\ last = NoCall
    /\ calls = 0
    /\ component_loader = 1
    /\ constructed = 1
    /\ pc = [t \in ThreadIds |-> "start"]
    /\ received = [t \in ThreadIds |-> 0]
    /\ NoBuilder

\* the outcomes of the filter step: an exception can only interrupt it
\* where it runs
FilterOutcomes ==
    IF development_mode /\ selective_modules # {} THEN BOOLEAN ELSE {FALSE}

(***************************************************************************)
(* Operations on the loader                                                *)
(***************************************************************************)
\* the effect of a call on the loader and what its caller observes
Call(op, arg, outcome, loaded) ==
    /\ index_data' = outcome.index_data
    /\ files' = outcome.files
    /\ last' = [op |-> op, arg |-> arg, ret |-> outcome.ret,
                events |-> outcome.events, loaded |-> loaded]
    /\ calls' = calls + 1
    /\ UNCHANGED <<dirs, environ, index_path, cache_path, development_mode,
                   selective_modules, threadVars, builderVars>>

LoadIndex ==
    /\ calls < MaxCalls
    /\ \E filter_raises \in FilterOutcomes,
          selected_list \in Orders(selective_modules) :
          Call("load_index", "",
               load_index(index_data, files, dirs, index_path, cache_path,
                          development_mode, selective_modules,
                          selected_list, filter_raises),
               TRUE)

QueryCall(op, arg) ==
    /\ calls < MaxCalls
    /\ \E filter_raises \in FilterOutcomes,
          selected_list \in Orders(selective_modules) :
          Call(op, arg,
               Query(op, arg, index_data, files, dirs, index_path,
                     cache_path, development_mode, selective_modules,
                     selected_list, filter_raises),
               ~Truthy(index_data))

GetAvailableModules == QueryCall("get_available_modules", "")

GetAvailableCategories == QueryCall("get_available_categories", "")

GetComponentsInModule ==
    \E m \in QueryModules : QueryCall("get_components_in_module", m)

GetComponentsInCategory ==
    \E c \in QueryCategories : QueryCall("get_components_in_category", c)

Next ==
    \/ LoadIndex
    \/ GetAvailableModules
    \/ GetAvailableCategories
    \/ GetComponentsInModule
    \/ GetComponentsInCategory

Spec == Init /\ [][Next]_vars

(***************************************************************************)
(* get_component_loader called by several threads before a loader exists.  *)
(* Instances are numbered in the order of their construction; 0 is None.   *)
(***************************************************************************)
ThreadEnvs ==
    { e \in DevelopmentEnvs \cup NoPathEnvs : e.components = ReferenceRoot }

InitThreads ==
    /\ \E e \in ThreadEnvs : InEnvironment(e)
    /\ Unconfigured
    /\ last = NoCall
    /\ calls = 0
    /\ component_loader = 0
    /\ constructed = 0
    /\ pc = [t \in ThreadIds |-> "start"]
    /\ received = [t \in ThreadIds |-> 0]
    /\ NoBuilder

\* if _component_loader is None:
CheckLoader(t) ==
    /\ pc[t] = "start"
    /\ pc' = [pc EXCEPT ![t] = IF component_loader = 0 THEN "construct"
                                ELSE "return"]
    /\ UNCHANGED <<envVars, loaderVars, last, calls, component_loader,
                   received, constructed, builderVars>>

\* _component_loader = ComponentIndexLoader()
ConstructLoader(t) ==
    /\ pc[t] = "construct"
    /\ Configured
    /\ constructed' = constructed + 1
    /\ component_loader' = constructed + 1
    /\ pc' = [pc EXCEPT ![t] = "return"]
    /\ UNCHANGED <<envVars, last, calls, received, builderVars>>

\* return _component_loader
ReturnLoader(t) ==
    /\ pc[t] = "return"
    /\ received' = [received EXCEPT ![t] = component_loader]
    /\ pc' = [pc EXCEPT ![t] = "done"]
    /\ UNCHANGED <<envVars, loaderVars, last, calls, component_loader,
                   constructed, builderVars>>

NextThreads ==
    \E t \in ThreadIds :
        \/ CheckLoader(t)
        \/ ConstructLoader(t)
        \/ ReturnLoader(t)

SpecThreads == InitThreads /\ [][NextThreads]_vars

(***************************************************************************)
(* The index builder used on its own: a ComponentIndexBuilder over a       *)
(* components directory, on which scan_components and validate_index are   *)
(* called; ComponentIndexBuilder(components_path) makes a new builder over *)
(* the same directory.                                                     *)
(***************************************************************************)
\* the components directories, as the sets of their entries
BuilderRoots ==
    { {},
      {OpenaiDir},
      {OpenaiDir, MistralDir, FaissDir},
      {ZetaDir, MistralDir, OpenaiDir},
      {FaissBrokenDir, OpenaiDir, ZetaUnreadableDir},
      {FaissDir, ZetaBrokenDir},
      {ZetaNoInitDir, MistralDir, OpenaiDir},
      {PycacheDir, HiddenDir, NotesFile, ZetaNoBlockDir, OpenaiDir},
      {GitDir, ZetaSentinelDir, FaissDir},
      {ZetaDottedNameDir, ZetaV2Dir, FaissDir} }

\* the working directories a scan is run in
Cwds == {"/work", "/srv"}

\* the loader plays no part
NoLoader ==
    /\ \E e \in NoPathEnvs : InEnvironment(e)
    /\ Unconfigured
    /\ last = NoCall
    /\ calls = 0
    /\ component_loader = 0
    /\ constructed = 0
    /\ pc = [t \in ThreadIds |-> "start"]
    /\ received = [t \in ThreadIds |-> 0]

\* the state after ComponentIndexBuilder(components_path)
InitBuilder ==
    /\ NoLoader
    /\ components_path \in BuilderRoots
    /\ builder_index = EmptyIndex
    /\ builder_last = NoBuilderCall
    /\ builder_calls = 0
    /\ scans = << >>

\* iterdir() gave the entries in the string order of their names
ListedInOrder(listing) ==
    \A i, j \in 1..Len(listing) :
        i < j => ~StrLess(listing[j].name, listing[i].name)

\* a call on the builder and what its caller observes; in_order says
\* whether the call, when it listed the directory, got it in string order
BuilderCall(op, index, ret, raised, fresh, scanned, in_order) ==
    /\ builder_index' = index
    /\ builder_last' = [op |-> op, ret |-> ret, raised |-> raised,
                        fresh |-> fresh, in_order |-> in_order]
    /\ builder_calls' = builder_calls + 1
    /\ scans' = scanned
    /\ UNCHANGED <<components_path, envVars, loaderVars, last, calls,
                   threadVars>>

\* ComponentIndexBuilder(components_path): a new builder over the directory
ConstructBuilder ==
    /\ builder_calls < MaxBuilderCalls
    /\ BuilderCall("construct", EmptyIndex, TRUE, FALSE, TRUE, scans, TRUE)

\* the outcome of a scan that gave catalog index
Scanned(index, listing) ==
    BuilderCall("scan_components", index, TRUE, FALSE, FALSE,
                IF builder_last.fresh THEN Append(scans, index) ELSE scans,
                ListedInOrder(listing))

ScanComponents ==
    /\ builder_calls < MaxBuilderCalls
    /\ \E listing \in Orders(components_path), cwd \in Cwds :
          Scanned(scan_components_in(builder_index, listing, cwd), listing)

ValidateIndex ==
    /\ builder_calls < MaxBuilderCalls
    /\ BuilderCall("validate_index", builder_index,
                   validate_index(builder_index),
                   validate_index_raises(builder_index),
                   builder_last.fresh, scans, TRUE)

NextBuilder ==
    \/ ConstructBuilder
    \/ ScanComponents
    \/ ValidateIndex

SpecBuilder == InitBuilder /\ [][NextBuilder]_vars

(***************************************************************************)
(* The builder's functions of their arguments alone, applied to arguments  *)
(* of any shape                                                            *)
(***************************************************************************)
\* a builder on which nothing has been called
InitFunctions ==
    /\ NoLoader
    /\ components_path = {}
    /\ builder_index = EmptyIndex
    /\ builder_last = NoBuilderCall
    /\ builder_calls = 0
    /\ scans = << >>

\* a call of one of those functions: its argument and what it returns
Applied(op, arg, ret) ==
    /\ builder_last' = [op |-> op, arg |-> arg, ret |-> ret,
                        raised |-> FALSE, fresh |-> builder_last.fresh,
                        in_order |-> TRUE]
    /\ builder_calls' = builder_calls + 1
    /\ UNCHANGED <<components_path, builder_index, scans, envVars,
                   loaderVars, last, calls, threadVars>>

\* _get_category_from_module applied to a module name: a name of the
\* table, one of them in another casing, or a name the table does not hold
GetCategoryFromModule ==
    /\ builder_calls < MaxBuilderCalls
    /\ \E module_name \in
              {category_map[i][1] : i \in 1..Len(category_map)}
                  \cup {"OpenAI", "Google", "AZURE", "Anthropic", "FAISS"}
                  \cup {"zeta", "Unknown", "unknown", "models"} :
          Applied("get_category_from_module", module_name,
                  get_category_from_module(module_name))

\* the number of lines of an initializer
MaxLines == 3

\* the initializer texts: up to MaxLines lines, each the opening line of
\* the block, a block written on one line, a pair, a closing brace, another
\* assignment of a dict written on one line or any other line; the texts
\* assign _dynamic_imports at most once
InitTexts ==
    {content \in UNION {[1..n ->
            {InitOpen, Line(TRUE, 1, 1, << <<"Zeta", "zeta">> >>, FALSE),
             InitPair("Zeta", "zeta"), InitClose,
             Line(FALSE, 1, 1, << <<"Zeta2", "locked">> >>, FALSE),
             InitOther}] : n \in 0..MaxLines} :
        Cardinality({i \in 1..Len(content) : content[i].starts}) <= 1}

ExtractDynamicImports ==
    /\ builder_calls < MaxBuilderCalls
    /\ \E content \in InitTexts :
          Applied("extract_dynamic_imports", content,
                  extract_dynamic_imports(content))

SpecFunctions ==
    InitFunctions /\ [][GetCategoryFromModule \/ ExtractDynamicImports]_vars

(***************************************************************************)
(* _build_selective_index over components directories of any content       *)
(***************************************************************************)
\* a loader about to build over a components directory; the last of the
\* directories holds two directories of different categories whose names
\* and declared names hold a "."
InitSelective ==
    /\ NoLoader
    /\ components_path \in
          { {OpenaiDir},
            {OpenaiDir, MistralDir, FaissDir},
            {ZetaDir, MistralDir, OpenaiDir},
            {FaissBrokenDir, OpenaiDir},
            {GitDir, ZetaSentinelDir, FaissDir},
            {ZetaDottedNameDir, ZetaV2Dir, FaissDir},
            {DirEntry("openai", TRUE, TRUE, TRUE,
                 << InitOpen, InitPair("v2.Chat", "chat_model"), InitClose >>,
                 << >>),
             DirEntry("openai.v2", TRUE, TRUE, TRUE,
                 << InitOpen, InitPair("Chat", "chat_model"), InitClose >>,
                 << >>),
             FaissDir} }
    /\ builder_index = EmptyIndex
    /\ builder_last = NoBuilderCall
    /\ builder_calls = 0
    /\ scans = << >>

\* _build_selective_index with allow-list selected, one of the allow-lists
\* WFX_DEV can give; builder_index is the index of the builder it makes,
\* builder_last.ret its outcome
BuildSelectiveIndex ==
    /\ builder_calls < MaxBuilderCalls
    /\ \E listing \in Orders(components_path),
          selected \in {{"models"}, {"other"}, {"vectorstores"},
                        {"models", "vectorstores"}} :
          \E selected_list \in Orders(selected), filter_raises \in BOOLEAN :
              /\ builder_last' =
                     [op |-> "build_selective_index", arg |-> selected,
                      ret |-> build_selective_index(
                                  [default |-> Dir(listing),
                                   custom |-> AbsentDir],
                                  "default", selected, selected_list,
                                  filter_raises),
                      raised |-> FALSE, fresh |-> FALSE,
                      in_order |-> ListedInOrder(listing)]
              /\ builder_index' = scan_components(EmptyIndex, listing)
    /\ builder_calls' = builder_calls + 1
    /\ UNCHANGED <<components_path, scans, envVars, loaderVars, last, calls,
                   threadVars>>

SpecSelective == InitSelective /\ [][BuildSelectiveIndex]_vars

(***************************************************************************)
(* validate_index applied to index values of any shape                     *)
(***************************************************************************)
\* a component record without its "module" key
WithoutModuleField(component_info) ==
    [f \in (DOMAIN component_info) \ {"module"} |-> component_info[f]]

StripModuleAt(index, i) ==
    [index EXCEPT !.components[i].v = WithoutModuleField(@)]

WithoutModule(index, module_name) ==
    [index EXCEPT !.modules =
        SelectSeq(index.modules, LAMBDA item : item.k # module_name)]

\* index values: catalogs of scans, left whole or with a modules entry
\* removed or a component's module field removed
IndexShapes ==
    { BuiltinCatalog,
      WithoutModule(BuiltinCatalog, "openai"),
      WithoutModule(BuiltinCatalog, "faiss"),
      StripModuleAt(BuiltinCatalog, 1),
      StripModuleAt(BuiltinCatalog, 3),
      StripModuleAt(WithoutModule(BuiltinCatalog, "faiss"), 3),
      StripModuleAt(WithoutModule(BuiltinCatalog, "openai"), 1),
      CacheCatalog,
      DanglingCatalog,
      StripModuleAt(CacheCatalog, 1),
      EmptyIndex }

\* the same with any of the top-level keys missing
ValidateInputs ==
    { [shape EXCEPT !.has = keys] :
        shape \in IndexShapes, keys \in SUBSET RequiredKeys }

InitValidate ==
    /\ NoLoader
    /\ components_path = {}
    /\ builder_index \in ValidateInputs
    /\ builder_last = NoBuilderCall
    /\ builder_calls = 0
    /\ scans = << >>

SpecValidate == InitValidate /\ [][ValidateIndex]_vars

(***************************************************************************)
(* Properties                                                              *)
(***************************************************************************)
QueryOps == {"get_available_modules", "get_available_categories",
             "get_components_in_module", "get_components_in_category"}

\* the step is a call of load_index / of a query operation
LoadIndexCall == calls' = calls + 1 /\ last'.op = "load_index"
QueryOpCall == calls' = calls + 1 /\ last'.op \in QueryOps

\* the built-in file / the cache file can be read and parsed
BuiltinLoads == index_path # "none" /\ files[index_path].kind = "json"
CacheLoads == cache_path # "none" /\ files[cache_path].kind = "json"

\* what a scan of the loader's components directory yields
FullScan ==
    scan_components(EmptyIndex, dirs[ComponentsDirOf(index_path)].listing)

\* the components directory can be scanned into a valid index
ScanSucceeds ==
    /\ index_path # "none"
    /\ dirs[ComponentsDirOf(index_path)].exists
    /\ validate_index(FullScan)

TierRank(e) ==
    CASE e = "read_builtin" -> 1
      [] e = "read_cache" -> 2
      [] e = "scan" -> 3
      [] e = "write_cache" -> 4
      [] OTHER -> 5

InTierOrder(events) ==
    \A i, j \in 1..Len(events) :
        i < j => TierRank(events[i]) < TierRank(events[j])

\* C1: in production mode load_index tries the built-in file, then the
\* cache file, then a scan, in that order, and returns the catalog of the
\* first tier that succeeds: when the built-in file loads nothing else is
\* read or scanned, when the cache file loads no scan runs.
C1_ProductionTierOrder ==
    [][ (LoadIndexCall /\ ~development_mode) =>
          /\ InTierOrder(last'.events)
          /\ BuiltinLoads =>
                /\ last'.events = <<"read_builtin">>
                /\ last'.ret.kind = "return"
                /\ last'.ret.value = JsonLoad(files[index_path].text)
          /\ (~BuiltinLoads /\ CacheLoads) =>
                /\ "scan" \notin SeqSet(last'.events)
                /\ last'.events[Len(last'.events)] = "read_cache"
                /\ last'.ret.kind = "return"
                /\ last'.ret.value = JsonLoad(files[cache_path].text)
          /\ (~BuiltinLoads /\ ~CacheLoads /\ last'.ret.kind = "return") =>
                /\ "scan" \in SeqSet(last'.events)
                /\ last'.ret.value = FullScan ]_vars

\* a production load that the cache file served after the built-in file
\* could not be parsed
C1_Witness ==
    /\ last.op = "load_index"
    /\ ~development_mode
    /\ last.events = <<"read_builtin", "read_cache">>
    /\ last.ret.kind = "return"
    /\ Len(last.ret.value.components) > 0

\* C2 (as claimed): once load_index has returned a catalog, the next call
\* on the loader reads no file and runs no scan, and a next load_index
\* returns the same catalog.
C2_Memoized ==
    [][ (last.op = "load_index" /\ last.ret.kind = "return"
            /\ calls' = calls + 1) =>
          /\ last'.events = << >>
          /\ last'.op = "load_index" => last'.ret = last.ret ]_vars

\* C3: in production mode, when the built-in load, the cache load and the
\* build-and-cache step all fail, load_index raises.
C3_ExhaustionRaises ==
    [][ (/\ LoadIndexCall
         /\ ~development_mode
         /\ ~BuiltinLoads
         /\ ~CacheLoads
         /\ \/ ~ScanSucceeds
            \/ cache_path # "none" /\ ~files.cache_writable) =>
          last'.ret.kind = "raise" ]_vars

\* a production load that reached the scan and raised
C3_Witness ==
    /\ last.op = "load_index"
    /\ ~development_mode
    /\ last.ret.kind = "raise"
    /\ "scan" \in SeqSet(last.events)

\* C4 (as claimed): in production mode the loader never adopts a catalog
\* that fails the structural integrity check.
C4_AdoptedCatalogValid ==
    (~development_mode /\ index_data.kind = "dict") =>
        validate_index(index_data)

\* C5 (as claimed): a query operation never raises.
C5_QueriesNeverRaise ==
    last.op \in QueryOps => last.ret.kind = "return"

\* C6 (as claimed): a query operation answers from the loaded catalog, or,
\* when none is loaded, from the catalog load_index produces.
C6_QueriesAnswerFromCatalog ==
    [][ QueryOpCall =>
          /\ Truthy(index_data) =>
                /\ last'.ret.kind = "return"
                /\ last'.ret.value = Answer(last'.op, last'.arg, index_data)
          /\ (/\ ~Truthy(index_data)
              /\ \E fr \in FilterOutcomes, sl \in Orders(selective_modules) :
                    load_index(index_data, files, dirs, index_path,
                               cache_path, development_mode,
                               selective_modules, sl, fr).ret.kind = "return")
             =>
                \E fr \in FilterOutcomes, sl \in Orders(selective_modules) :
                    LET l == load_index(index_data, files, dirs, index_path,
                                        cache_path, development_mode,
                                        selective_modules, sl, fr)
                    IN  /\ l.ret.kind = "return"
                        /\ last'.ret.kind = "return"
                        /\ last'.ret.value =
                               Answer(last'.op, last'.arg, l.ret.value) ]_vars

\* C7 (as claimed): at most one loader is constructed and all callers of
\* get_component_loader receive the same instance.
C7_SingleInstance ==
    /\ constructed <= 1
    /\ \A t1, t2 \in ThreadIds :
          (pc[t1] = "done" /\ pc[t2] = "done") => received[t1] = received[t2]

\* C8: in development mode without an allow-list load_index reads neither
\* index file and writes no file; when it returns, it has run one scan and
\* returns the result of that scan.
C8_FullRebuildBypassesFiles ==
    [][ (LoadIndexCall /\ development_mode /\ selective_modules = {}) =>
          /\ files' = files
          /\ SeqSet(last'.events) \subseteq {"scan"}
          /\ last'.ret.kind = "return" =>
                /\ last'.events = <<"scan">>
                /\ last'.ret.value = FullScan ]_vars

\* a full rebuild that returned a catalog while both index files exist
C8_Witness ==
    /\ last.op = "load_index"
    /\ development_mode
    /\ selective_modules = {}
    /\ last.ret.kind = "return"
    /\ Len(last.ret.value.components) > 0
    /\ files.default.kind = "json"
    /\ files.cache.kind = "json"

\* the items of dict d whose category is in S, as a set
Surviving(d, S) == {d[i] : i \in {j \in 1..Len(d) : d[j].v.category \in S}}

C10_FilterFailureFallsBack ==
    (/\ last.op = "load_index"
     /\ "selective_failed" \in SeqSet(last.events)
     /\ ScanSucceeds) =>
        /\ last.ret.kind = "return"
        /\ last.ret.value = FullScan

\* a selective load whose filter step failed over a scan with components
\* outside the allow-list
C10_Witness ==
    /\ last.op = "load_index"
    /\ "selective_failed" \in SeqSet(last.events)
    /\ ScanSucceeds
    /\ last.ret.kind = "return"
    /\ Surviving(FullScan.components, selective_modules)
           # SeqSet(FullScan.components)

\* Python's == on two dicts with scalar or list values: the same items
DictSame(d1, d2) == Len(d1) = Len(d2) /\ SeqSet(d1) = SeqSet(d2)

\* == on two modules dicts, whose values hold the dict dynamic_imports
ModulesSame(m1, m2) ==
    /\ Len(m1) = Len(m2)
    /\ KeySet(m1) = KeySet(m2)
    /\ \A k \in KeySet(m1) :
          LET x == DictGet(m1, k)
              y == DictGet(m2, k)
          IN  /\ x.name = y.name
              /\ x.category = y.category
              /\ x.component_count = y.component_count
              /\ DictSame(x.dynamic_imports, y.dynamic_imports)

\* == on two catalogs, but for metadata
SameEntries(a, b) ==
    /\ a.kind = b.kind
    /\ a.has = b.has
    /\ DictSame(a.components, b.components)
    /\ ModulesSame(a.modules, b.modules)
    /\ DictSame(a.categories, b.categories)

\* == on two catalogs
CatalogEq(a, b) == SameEntries(a, b) /\ a.metadata = b.metadata

\* C11: in production mode with the built-in file and the cache file absent,
\* a components directory whose scan validates and a cache file that can be
\* written, load_index scans, writes the cache file and returns the scanned
\* catalog, which it adopts; afterwards the cache file holds that catalog.
C11_ScanWritesCache ==
    [][ (/\ LoadIndexCall
         /\ ~development_mode
         /\ index_path # "none"
         /\ files[index_path].kind = "absent"
         /\ cache_path # "none"
         /\ files[cache_path].kind = "absent"
         /\ files.cache_writable
         /\ ScanSucceeds) =>
          /\ last'.events = <<"scan", "write_cache">>
          /\ last'.ret.kind = "return"
          /\ last'.ret.value = FullScan
          /\ index_data' = last'.ret.value
          /\ files'[cache_path].kind = "json"
          /\ CatalogEq(JsonLoad(files'[cache_path].text), last'.ret.value)
          /\ files'[index_path] = files[index_path] ]_vars

\* a production load that scanned a directory with components and left
\* them in the cache file, the built-in file being absent
C11_Witness ==
    /\ last.op = "load_index"
    /\ ~development_mode
    /\ index_path # "none"
    /\ files[index_path].kind = "absent"
    /\ last.events = <<"scan", "write_cache">>
    /\ last.ret.kind = "return"
    /\ Len(last.ret.value.components) > 1
    /\ files[cache_path].kind = "json"
    /\ Len(JsonLoad(files[cache_path].text).components) > 1

\* the entries of the components directory that scan_components takes up
Candidate(e) ==
    e.is_dir /\ ~StartsWithDunder(e.name) /\ ~StartsWithDot(e.name)

\* what the initializer of entry e declares
Declared(e) ==
    IF e.has_init /\ e.init_readable THEN extract_dynamic_imports(e.init)
    ELSE << >>

DeclaredNames(e) == KeySet(Declared(e)) \ {"__module__"}

\* processing entry e raises: its initializer cannot be read, or looking at
\* the source file of one of its components raises
FailsInScan(e) ==
    /\ Candidate(e)
    /\ e.has_init
    /\ \/ ~e.init_readable
       \/ \E i \in 1..Len(Declared(e)) :
             /\ Declared(e)[i].k # "__module__"
             /\ SourceOf(e, Declared(e)[i].v).status = "oserror"

\* entry e is processed to the end
Included(e) ==
    /\ Candidate(e)
    /\ Len(Declared(e)) > 0
    /\ ~FailsInScan(e)

\* the keys that stand in the categories lists of index
CategoryKeys(index) ==
    UNION {SeqSet(index.categories[i].v) : i \in 1..Len(index.categories)}

\* index has no modules, components or categories entry for entry e
NoEntriesOf(index, e) ==
    /\ ~DictHas(index.modules, e.name)
    /\ \A i \in 1..Len(index.components) :
          index.components[i].v.module # e.name
    /\ \A n \in DeclaredNames(e) :
          ComponentKey(e.name, n) \notin CategoryKeys(index)

\* the builder's index is what the last scan_components left
AfterScan == builder_last.op = "scan_components"

\* C12 (as claimed): a module whose processing raises during
\* scan_components is skipped entirely: the catalog has no modules, no
\* components and no categories entry for it, and the modules that process
\* to the end are in the catalog.
C12_FailedModuleSkipped ==
    AfterScan =>
        \A e \in components_path :
            /\ FailsInScan(e) => NoEntriesOf(builder_index, e)
            /\ Included(e) => DictHas(builder_index.modules, e.name)

\* C13 (as claimed): validate_index returns true for every catalog that
\* scan_components produces: the four top-level keys are present and every
\* component's module is a key of modules.
C13_ScanValidates ==
    AfterScan =>
        /\ validate_index(builder_index)
        /\ ~validate_index_raises(builder_index)
        /\ RequiredKeys \subseteq builder_index.has
        /\ \A i \in 1..Len(builder_index.components) :
              builder_index.components[i].v.module
                  \in KeySet(builder_index.modules)

\* C14: after scan_components, metadata.total_components is the number of
\* entries of components and metadata.total_modules the number of entries
\* of modules, also when modules were skipped or failed.
C14_CountsMatch ==
    AfterScan =>
        /\ builder_index.metadata.total_components =
               Cardinality(KeySet(builder_index.components))
        /\ builder_index.metadata.total_modules =
               Cardinality(KeySet(builder_index.modules))

\* a scan in which a module failed after one of its components was added,
\* so that the modules' own counts do not add up to the components
C14_Witness ==
    /\ AfterScan
    /\ \E e \in components_path : FailsInScan(e)
    /\ builder_index.metadata.total_modules > 0
    /\ builder_index.metadata.total_components >
           SumComponentCounts(builder_index.modules)

\* how often key stands in list
Occurrences(list, key) == Cardinality({p \in 1..Len(list) : list[p] = key})

\* the categories lists other than that of category hold no key
OnlyUnder(index, key, category) ==
    \A i \in 1..Len(index.categories) :
        index.categories[i].k # category =>
            key \notin SeqSet(index.categories[i].v)

KeysCategorised(index) ==
    /\ \A i \in 1..Len(index.components) :
          LET key == index.components[i].k
              category == index.components[i].v.category
          IN  /\ DictHas(index.categories, category)
              /\ Occurrences(DictGet(index.categories, category), key) = 1
              /\ OnlyUnder(index, key, category)
    /\ CategoryKeys(index) \subseteq KeySet(index.components)

\* C15 (as claimed): in the catalog a new builder's scan_components
\* produces, each key of components stands in exactly one categories list,
\* once, namely the list of the component's category, and every key in a
\* categories list is a key of components.
C15_OneCategoryPerKey ==
    \A s \in 1..Len(scans) : KeysCategorised(scans[s])

\* the components entries of index whose module is module_name
EntriesOf(index, module_name) ==
    {i \in 1..Len(index.components) :
        index.components[i].v.module = module_name}

\* the entries of module e.name in index are the names e declares
ModuleEntered(index, e) ==
    /\ \A n \in DeclaredNames(e) :
          /\ DictHas(index.components, ComponentKey(e.name, n))
          /\ LET c == DictGet(index.components, ComponentKey(e.name, n))
             IN  /\ c.module = e.name
                 /\ c.name = n
                 /\ c.category = get_category_from_module(e.name)
    /\ {index.components[i].v.name : i \in EntriesOf(index, e.name)}
           = DeclaredNames(e)
    /\ DictGet(index.modules, e.name).component_count
           = Cardinality(EntriesOf(index, e.name))

\* C16 (as claimed): in the catalog a new builder's scan_components
\* produces, every module m with a modules entry has, for each name n it
\* declares but "__module__", a components entry "m.n" with module m, name
\* n and the category of m; the entries with module m are exactly those
\* names, component_count is their number, and different (module, name)
\* pairs have different keys.
C16_ComponentEntries ==
    \A s \in 1..Len(scans) :
        /\ \A e \in components_path :
              DictHas(scans[s].modules, e.name) => ModuleEntered(scans[s], e)
        /\ \A e1, e2 \in components_path :
              \A n1 \in DeclaredNames(e1), n2 \in DeclaredNames(e2) :
                  (/\ DictHas(scans[s].modules, e1.name)
                   /\ DictHas(scans[s].modules, e2.name)
                   /\ <<e1.name, n1>> # <<e2.name, n2>>) =>
                      ComponentKey(e1.name, n1) # ComponentKey(e2.name, n2)

\* the four keys are present and every component's module is a key of
\* modules
WellFormed(index) ==
    /\ RequiredKeys \subseteq index.has
    /\ \A i \in 1..Len(index.components) :
          /\ "module" \in DOMAIN index.components[i].v
          /\ index.components[i].v.module \in KeySet(index.modules)

\* C17 (as claimed): validate_index never raises; it returns true when the
\* four top-level keys are present and every component's module is a key of
\* modules, and false for every other index value.
C17_ValidateFailsClosed ==
    builder_last.op = "validate_index" =>
        /\ ~builder_last.raised
        /\ builder_last.ret = WellFormed(builder_index)

\* entry e is left out by scan_components without an exception: it is not a
\* directory, its name starts with "__" or ".", it has no initializer, or
\* its initializer holds no _dynamic_imports block
LeftOut(e) ==
    \/ ~Candidate(e)
    \/ ~e.has_init
    \/ e.init_readable /\ Len(extract_dynamic_imports(e.init)) = 0

\* C18: an entry that is not a directory, a directory whose name starts
\* with "__" or ".", a directory without initializer and one whose
\* initializer has no _dynamic_imports block contribute no modules,
\* components or categories entry to the catalog of scan_components, and
\* the scan goes on to enter the other modules.
C18_LeftOutEntries ==
    AfterScan =>
        \A e \in components_path :
            /\ LeftOut(e) => NoEntriesOf(builder_index, e)
            /\ Included(e) => DictHas(builder_index.modules, e.name)

\* a scan of a directory with a file, a "__" and a "." directory that hold
\* initializers with declarations, and a module without block, next to a
\* module that was entered
C18_Witness ==
    /\ AfterScan
    /\ \E e \in components_path : ~e.is_dir
    /\ \E e \in components_path :
          StartsWithDunder(e.name) /\ DeclaredNames(e) # {}
    /\ \E e \in components_path :
          StartsWithDot(e.name) /\ DeclaredNames(e) # {}
    /\ \E e \in components_path :
          Candidate(e) /\ e.has_init /\ e.init_readable
              /\ Len(Declared(e)) = 0
    /\ Len(builder_index.components) > 0

\* the entry of the components directory named module_name
EntryNamed(module_name) ==
    CHOOSE e \in components_path : e.name = module_name

\* the place of name among the declarations of entry e
DeclaredAt(e, name) ==
    CHOOSE i \in 1..Len(Declared(e)) : Declared(e)[i].k = name

\* key a stands before key b in a categories list of index: a's module is
\* not after b's in string order, and within one module a is declared first
InScanOrder(index, a, b) ==
    LET ca == DictGet(index.components, a)
        cb == DictGet(index.components, b)
    IN  /\ ~StrLess(cb.module, ca.module)
        /\ (ca.module = cb.module /\ a # b) =>
              DeclaredAt(EntryNamed(ca.module), ca.name)
                  < DeclaredAt(EntryNamed(cb.module), cb.name)

ListsInScanOrder(index) ==
    \A c \in 1..Len(index.categories) :
        \A p, q \in 1..Len(index.categories[c].v) :
            p < q => InScanOrder(index, index.categories[c].v[p],
                                 index.categories[c].v[q])

\* the metadata but for generated_at
Undated(metadata) == [metadata EXCEPT !.generated_at = "None"]

\* C19: the catalogs that scans of new builders over the same directory
\* produce are equal but for metadata.generated_at, whatever order iterdir()
\* lists the directory in; every categories list goes by module in string
\* order and within a module by declaration.
C19_ScanReproducible ==
    \A i, j \in 1..Len(scans) :
        /\ SameEntries(scans[i], scans[j])
        /\ Undated(scans[i].metadata) = Undated(scans[j].metadata)
        /\ ListsInScanOrder(scans[i])

\* a second scan over a listing that is not in string order, run in another
\* working directory, with several modules in one categories list
C19_Witness ==
    /\ Len(scans) = 2
    /\ AfterScan
    /\ ~builder_last.in_order
    /\ scans[1].metadata.generated_at # scans[2].metadata.generated_at
    /\ \E c \in 1..Len(scans[2].categories) :
          \E p, q \in 1..Len(scans[2].categories[c].v) :
              DictGet(scans[2].components, scans[2].categories[c].v[p]).module
                # DictGet(scans[2].components,
                          scans[2].categories[c].v[q]).module

\* the value of WFX_DEV
WfxDev == Join(environ.wfx_dev)

\* the items of WFX_DEV between its commas, trimmed and lower-cased, the
\* empty ones dropped
AllowListOf(pieces) ==
    {LowerPiece(Strip(pieces[i])) :
        i \in {j \in 1..Len(pieces) : Strip(pieces[j]) # ""}}

\* C20 (as claimed): WFX_DEV unset or empty leaves development mode off;
\* "1" and "true" in any casing turn it on with an empty allow-list; any
\* other value turns it on with the trimmed, lower-cased, non-empty items of
\* the value as the allow-list.
C20_DevelopmentVariable ==
    /\ WfxDev = "" => (~development_mode /\ selective_modules = {})
    /\ (WfxDev # "" /\ LowerPiece(WfxDev) \in {"1", "true"}) =>
          (development_mode /\ selective_modules = {})
    /\ (WfxDev # "" /\ LowerPiece(WfxDev) \notin {"1", "true"}) =>
          (development_mode
              /\ selective_modules = AllowListOf(environ.wfx_dev))

\* the names the table lists in its group of model providers
ModelProviders ==
    {"anthropic", "openai", "mistral", "google", "azure", "vertexai",
     "cohere", "huggingface", "nvidia", "ollama", "groq", "perplexity",
     "deepseek", "xai", "novita", "sambanova", "aiml"}

\* C21 (as claimed): classification takes the module name in any casing; a
\* name the table does not hold gives "other", a name the table holds gives
\* the category of each group it is listed under, and the seventeen model
\* providers give "models".
C21_Classification ==
    builder_last.op = "get_category_from_module" =>
        LET key == Lower(builder_last.arg) IN
        /\ (\A i \in 1..Len(category_map) : category_map[i][1] # key) =>
              builder_last.ret = "other"
        /\ \A i \in 1..Len(category_map) :
              category_map[i][1] = key => builder_last.ret = category_map[i][2]
        /\ key \in ModelProviders => builder_last.ret = "models"

\* the declared components of entry e whose metadata extraction fails: the
\* source file is missing, cannot be read, or cannot be looked at
ExtractionFails(e) ==
    {i \in 1..Len(Declared(e)) :
        /\ Declared(e)[i].k # "__module__"
        /\ SourceOf(e, Declared(e)[i].v).status # "ok"}

\* a description string and the four lists
ValidInfo(info) ==
    /\ DOMAIN info =
           {"description", "inputs", "outputs", "dependencies", "tags"}
    /\ info.description \in STRING
    /\ \A f \in {"inputs", "outputs", "dependencies", "tags"} :
          info[f] \in Seq(STRING)

\* every component entry e declares is in index with a valid info record,
\* and so is the module entry of e
EnteredWithInfo(index, e) ==
    /\ \A n \in DeclaredNames(e) :
          /\ DictHas(index.components, ComponentKey(e.name, n))
          /\ ValidInfo(DictGet(index.components, ComponentKey(e.name, n)).info)
    /\ DictHas(index.modules, e.name)

\* C22 (as claimed): when metadata extraction fails for a component (its
\* source file is missing, unreadable or malformed), the component is still
\* in the catalog with a valid info record, and the other components of its
\* module and the module entry are in the catalog as well.
C22_ExtractionFailureLocal ==
    \A s \in 1..Len(scans) :
        \A e \in components_path :
            (Candidate(e) /\ ExtractionFails(e) # {}) =>
                EnteredWithInfo(scans[s], e)

\* the line on which the block that begins on line i ends: the first line
\* after which as many braces are closed as were opened, the opening line
\* counted in; the last line if the block is never closed
RECURSIVE BlockEnd(_, _, _)
BlockEnd(lines, i, depth) ==
    IF (depth + lines[i].opens) - lines[i].closes <= 0 \/ i = Len(lines)
    THEN i
    ELSE BlockEnd(lines, i + 1, (depth + lines[i].opens) - lines[i].closes)

\* the lines of the _dynamic_imports = { ... } block of an initializer
BlockLines(lines) ==
    IF \A i \in 1..Len(lines) : ~lines[i].starts THEN << >>
    ELSE LET first == CHOOSE i \in 1..Len(lines) : lines[i].starts
         IN  SubSeq(lines, first, BlockEnd(lines, first, 0))

\* C26 (as claimed): the mapping extracted from an initializer's text holds
\* exactly the key/value pairs written inside the _dynamic_imports block; a
\* pair on a line after the block's closing brace is not in it, also when
\* the block opens and closes on one line.
C26_ExactlyTheBlock ==
    builder_last.op = "extract_dynamic_imports" =>
        DictSame(builder_last.ret,
                 DictFromPairs(<< >>, AllPairs(BlockLines(builder_last.arg))))

\* the built-in index path _setup_paths resolves
DefaultIndexPath == IF environ.home_ok THEN "default" ELSE "none"

\* C23: when WFX_COMPONENTS_INDEX_PATH is set and that path exists at
\* construction, the loader's built-in index path is the custom path and
\* tier 1 of a production load reads it (and returns its catalog when it
\* parses); when the variable is set and the path does not exist, the
\* default built-in index path is kept.
C23_CustomIndexPath ==
    environ.custom_set =>
        /\ files.custom.kind # "absent" => index_path = "custom"
        /\ files.custom.kind = "absent" => index_path = DefaultIndexPath
        /\ (/\ files.custom.kind # "absent"
            /\ last.op = "load_index"
            /\ ~development_mode) =>
               /\ Len(last.events) > 0
               /\ last.events[1] = "read_builtin"
               /\ files.custom.kind = "json" =>
                     last.ret = Returned(JsonLoad(files.custom.text))

\* a production load that returned the catalog of the custom file while
\* the file at the default path holds another catalog
C23_Witness ==
    /\ environ.custom_set
    /\ environ.home_ok
    /\ index_path = "custom"
    /\ files.custom.kind = "json"
    /\ last.op = "load_index"
    /\ last.events = <<"read_builtin">>
    /\ last.ret = Returned(JsonLoad(files.custom.text))
    /\ files.default.kind = "json"
    /\ ~CatalogEq(last.ret.value, JsonLoad(files.default.text))

\* WFX_COMPONENTS_INDEX_PATH names a path that exists
CustomPathGiven == environ.custom_set /\ files.custom.kind # "absent"

\* C24 (as claimed): when path resolution fails at construction, the loader
\* has neither a built-in index path nor a cache path, and every load_index
\* call raises instead of returning a catalog.
C24_NoPathsAsClaimed ==
    ~environ.home_ok =>
        /\ index_path = "none"
        /\ cache_path = "none"
        /\ last.op = "load_index" => last.ret.kind = "raise"

\* C24 (amended): when path resolution fails at construction, the loader
\* has no cache path; unless WFX_COMPONENTS_INDEX_PATH names an existing
\* path, it has no built-in index path either and every load_index call
\* raises instead of returning a catalog.
C24_NoPaths ==
    ~environ.home_ok =>
        /\ cache_path = "none"
        /\ ~CustomPathGiven =>
              /\ index_path = "none"
              /\ last.op = "load_index" =>
                    /\ last.ret.kind = "raise"
                    /\ index_data = None

\* a second load_index on a loader whose path resolution failed raises as
\* the first did
C24_Witness ==
    /\ ~environ.home_ok
    /\ ~CustomPathGiven
    /\ index_path = "none"
    /\ cache_path = "none"
    /\ calls = 2
    /\ last.op = "load_index"
    /\ last.ret.kind = "raise"

\* the call observed in c scanned and wrote the cache file
WroteCache(c) ==
    /\ c.op = "load_index"
    /\ c.ret.kind = "return"
    /\ Len(c.events) >= 2
    /\ SubSeq(c.events, Len(c.events) - 1, Len(c.events))
           = <<"scan", "write_cache">>

C27_LocationsAgree ==
    index_path # "none" =>
        /\ index_path = "default" => IndexFileOf(index_path) = MainOutputPath
        /\ ComponentsDirAt(IndexFileOf(index_path)) = MainComponentsPath
        /\ ComponentsDirOf(index_path) = ComponentsDirOf("default")

\* a step that is a call of scan_components on a builder that has been
\* scanned before
Rescan ==
    /\ builder_calls' = builder_calls + 1
    /\ builder_last'.op = "scan_components"
    /\ ~builder_last.fresh

\* C28 (as claimed): a second scan_components on the same builder over the
\* unchanged components root leaves the index as the first scan left it,
\* apart from generated_at: nothing is added to components, to modules or
\* to a categories list.
C28_RescanIdempotent ==
    [][ Rescan =>
          /\ SameEntries(builder_index', builder_index)
          /\ Undated(builder_index'.metadata)
                 = Undated(builder_index.metadata) ]_vars

\* C29: in production mode a tier that fails leaves the loader's catalog as
\* it was: when load_index raises, index_data is unchanged, also when the
\* built-in file or the cache file could not be parsed or the scan ran and
\* the validation or the cache write failed; and when tier 3 sets the
\* catalog, the scan validated and the cache file, if a cache path is
\* configured, holds the catalog.
C29_FailedTierKeepsCatalog ==
    [][ (LoadIndexCall /\ ~development_mode) =>
          /\ last'.ret.kind = "raise" =>
                /\ index_data' = index_data
                /\ files' = files
          /\ (last'.ret.kind = "return"
                  /\ "scan" \in SeqSet(last'.events)) =>
                /\ index_data' = last'.ret.value
                /\ validate_index(index_data')
                /\ cache_path # "none" =>
                      /\ files'[cache_path].kind = "json"
                      /\ CatalogEq(JsonLoad(files'[cache_path].text),
                                   index_data') ]_vars

\* a load_index that raised after the built-in file and the cache file
\* failed to parse and the scan ran
C29_Witness ==
    /\ last.op = "load_index"
    /\ ~development_mode
    /\ last.ret.kind = "raise"
    /\ last.events = <<"read_builtin", "read_cache", "scan">>

\* _build_selective_index returned a filtered catalog
Filtered ==
    /\ builder_last.op = "build_selective_index"
    /\ ~builder_last.ret.raised
    /\ "selective_failed" \notin SeqSet(builder_last.ret.events)

\* the keys of the components of index whose category is c, in the order
\* of components
KeysOfCategory(index, c) ==
    DictKeys(SelectSeq(index.components, LAMBDA item : item.v.category = c))

\* the structural invariants of a filtered catalog f derived from the full
\* catalog with allow-list selected
FilteredInvariants(f, full, selected) ==
    /\ \A i \in 1..Len(f.components) :
          DictHas(f.modules, f.components[i].v.module)
    /\ \A i \in 1..Len(f.modules) :
          \A n \in KeySet(f.modules[i].v.dynamic_imports) \ {"__module__"} :
              DictHas(f.components, ComponentKey(f.modules[i].k, n))
    /\ KeySet(f.categories) =
           {f.components[i].v.category : i \in 1..Len(f.components)}
    /\ \A i \in 1..Len(f.categories) :
          /\ f.categories[i].k \in selected
          /\ f.categories[i].v = KeysOfCategory(full, f.categories[i].k)
          /\ SeqSet(f.categories[i].v) \subseteq KeySet(f.components)

\* C30 (as claimed): a filtered catalog that selective mode derives from a
\* valid full scan satisfies the structural invariants: every surviving
\* component's module is a key of the filtered modules, every surviving
\* module's components all survive, and each categories list holds exactly
\* the surviving keys of its category in the order of the full catalog's
\* components.
C30_FilteredInvariants ==
    (Filtered /\ validate_index(builder_index)) =>
        FilteredInvariants(builder_last.ret.index, builder_index,
                           builder_last.arg)

====
